---------------------------- MODULE Spec2Model ----------------------------
(***************************************************************************)
(* Road Workers Connect - Support & Welcome Bot (src/support_bot_api.py).  *)
(*                                                                         *)
(* Three parts of the service are modelled:                                *)
(*   - the pure string logic (classifier and help-text builders),          *)
(*   - the /support-bot endpoint with its background e-mail task,          *)
(*   - the /welcome-message endpoint with its two external REST calls.     *)
(*                                                                         *)
(* Python strings are sequences of one-character strings, so that          *)
(* str.lower() and the substring test `t in s` are computed, not assumed.  *)
(* An Optional[T] value is a set with at most one element: None is {} and  *)
(* a present value x is {x}.                                               *)
(***************************************************************************)
EXTENDS Integers, Sequences, FiniteSets, TLC

VARIABLES
  helpMsg,      \* input message handed to a help-text builder
  helpFn,       \* which builder has been applied: "none", "jobs", "classifieds"
  helpOut,      \* Optional reply returned by that builder
  supPc,        \* position of the /support-bot request: "idle", "responded"
  supReq,       \* Optional SupportBotRequest being served
  supReply,     \* Optional SupportBotReply returned by the endpoint
  supCalls,     \* functions invoked while serving the request, in order
  supRaised,    \* TRUE when the reply comes from the except branch
  bgTasks,      \* tasks added to the request's BackgroundTasks, in order
  emails,       \* e-mail sends attempted for the request, in order
  welPc,        \* per /welcome-message request: "idle", "lookup", "insert", "done"
  welBody,      \* per request: the JSON body received (Optional)
  welLog,       \* per request: what the request did, in order
  welResp,      \* per request: the HTTP response returned (Optional)
  welClient,    \* per request: the httpx client it acquired (Optional)
  clients       \* every httpx client created so far: "open" or "closed"

helpVars == <<helpMsg, helpFn, helpOut>>
supVars == <<supPc, supReq, supReply, supCalls, supRaised, bgTasks, emails>>
welVars == <<welPc, welBody, welLog, welResp, welClient, clients>>
vars == <<helpVars, supVars, welVars>>

---------------------------------------------------------------------------
(* Bounds *)

MaxWords == 4        \* words of a message handed to a help-text builder
MaxSupWords == 3     \* words of a message sent to /support-bot
MaxWelcome == 2      \* /welcome-message requests, served concurrently

---------------------------------------------------------------------------
(* Optional values *)

None == {}
Some(x) == {x}
Get(o) == CHOOSE x \in o : TRUE

---------------------------------------------------------------------------
(* Python string operations *)

Upper == <<"A","B","C","D","E","F","G","H","I","J","K","L","M",
           "N","O","P","Q","R","S","T","U","V","W","X","Y","Z">>
Lower == <<"a","b","c","d","e","f","g","h","i","j","k","l","m",
           "n","o","p","q","r","s","t","u","v","w","x","y","z">>

\* str.lower() on the upper-case ASCII letters
LowerOf ==
  [ c \in { Upper[i] : i \in 1..Len(Upper) } |->
      Lower[CHOOSE i \in 1..Len(Upper) : Upper[i] = c] ]

\* str.lower() on one character
LowerChar(c) == IF c \in DOMAIN LowerOf THEN LowerOf[c] ELSE c

RECURSIVE ToLower(_)
\* str.lower()
ToLower(s) ==
  IF s = <<>> THEN <<>> ELSE <<LowerChar(Head(s))>> \o ToLower(Tail(s))

\* the Python test `t in s` on strings
Contains(s, t) ==
  \E i \in 0..(Len(s) - Len(t)) : \A j \in 1..Len(t) : s[i + j] = t[j]

\* any(p(x) for x in xs)
AnyIn(s, xs) == \E i \in 1..Len(xs) : Contains(s, xs[i])

---------------------------------------------------------------------------
(* Reply texts (typographic quotes of the source written as ASCII) *)

BotRole == "bot"
BotName == "Road Workers Connect Support Bot"

JobsPostText ==
  "To post a job, tap 'Post a Job', fill in job title, location, pay range, any required certifications, and shift details. When you save, your listing appears on the Job Board."
JobsPostFollowUps ==
  << "Do you want help with the job title or description?",
     "Is this a short call-out or a longer-term position?" >>
JobsEditText ==
  "To edit a job, open your job post, choose 'Edit', adjust the details, and save. The Job Board updates automatically."
JobsDeleteText ==
  "To remove a job, open the post and choose 'Delete'. Once removed, it will no longer appear on the Job Board."
JobsMenuText ==
  "I can help you create, edit, or remove job posts. Tell me if you're posting a new job, updating one, or taking one down."

ClassifiedsPostText ==
  "To post an item for sale, tap 'New Classified', add photos, a clear title, condition, price, and pickup or delivery details. When you publish, it appears in the Classifieds feed."
ClassifiedsPostFollowUps ==
  << "Are you listing tools, PPE, or heavy equipment?",
     "Do you want advice on pricing or description?" >>
ClassifiedsSoldText ==
  "To mark an item as sold, open your classified post and tap 'Mark as Sold'. Other users will see that it is no longer available."
ClassifiedsMenuText ==
  "I can walk you through posting items for sale, editing listings, or marking them as sold. What are you trying to do?"

IssueText ==
  "I'm Road Workers Connect Support Bot. It looks like you're running into a technical problem. We're aware of the problem you're having and we will address it immediately. If it continues, you can also email info@superiorllc.org."
FallbackText ==
  "I'm Road Workers Connect Support Bot. Something went wrong on our side. We're aware of the problem you're having and we will address it immediately."

\* class SupportBotReply: role and name have fixed defaults,
\* followUpQuestions defaults to None and issueReported to False
SupportBotReply(reply, followUpQuestions, issueReported) ==
  [ role |-> BotRole,
    name |-> BotName,
    reply |-> reply,
    followUpQuestions |-> followUpQuestions,
    issueReported |-> issueReported ]

---------------------------------------------------------------------------
(* Support bot logic *)

triggers ==
  << <<"n","o","t"," ","l","o","a","d","i","n","g">>,
     <<"s","p","i","n","n","e","r">>,
     <<"c","r","a","s","h">>,
     <<"e","r","r","o","r">>,
     <<"4","0","4">>,
     <<"5","0","0">>,
     <<"5","0","2">>,
     <<"c","a","n","n","o","t"," ","c","o","n","n","e","c","t">>,
     <<"c","o","n","n","e","c","t","i","o","n"," ","p","r","o","b","l","e","m">>,
     <<"n","e","t","w","o","r","k"," ","i","s","s","u","e">>,
     <<"l","i","n","k"," ","n","o","t"," ","w","o","r","k","i","n","g">>,
     <<"b","r","o","k","e","n"," ","l","i","n","k">>,
     <<"a","p","p"," ","f","r","o","z","e">>,
     <<"w","h","i","t","e"," ","s","c","r","e","e","n">> >>

\* the classifier without lower-casing
looks_like_environment_issue_CaseSensitive(message) ==
  AnyIn(message, triggers)

looks_like_environment_issue(message) ==
  LET lower == ToLower(message)
  IN  AnyIn(lower, triggers)

Kw_post == <<"p","o","s","t">>
Kw_job == <<"j","o","b">>
Kw_edit == <<"e","d","i","t">>
Kw_update == <<"u","p","d","a","t","e">>
Kw_delete == <<"d","e","l","e","t","e">>
Kw_remove == <<"r","e","m","o","v","e">>
Kw_item == <<"i","t","e","m">>
Kw_equipment == <<"e","q","u","i","p","m","e","n","t">>
Kw_tool == <<"t","o","o","l">>
Kw_tools == <<"t","o","o","l","s">>
Kw_mark == <<"m","a","r","k">>
Kw_sold == <<"s","o","l","d">>

build_jobs_help(message) ==
  LET lower == ToLower(message)
  IN  IF Contains(lower, Kw_post) /\ Contains(lower, Kw_job)
        THEN SupportBotReply(JobsPostText, Some(JobsPostFollowUps), FALSE)
      ELSE IF Contains(lower, Kw_edit) \/ Contains(lower, Kw_update)
        THEN SupportBotReply(JobsEditText, None, FALSE)
      ELSE IF Contains(lower, Kw_delete) \/ Contains(lower, Kw_remove)
        THEN SupportBotReply(JobsDeleteText, None, FALSE)
      ELSE SupportBotReply(JobsMenuText, None, FALSE)

\* the mark-as-sold rule tried before the posting rule
build_classifieds_help_SoldFirst(message) ==
  LET lower == ToLower(message)
  IN  IF Contains(lower, Kw_mark) /\ Contains(lower, Kw_sold)
        THEN SupportBotReply(ClassifiedsSoldText, None, FALSE)
      ELSE IF Contains(lower, Kw_post)
              /\ AnyIn(lower, <<Kw_item, Kw_equipment, Kw_tool, Kw_tools>>)
        THEN SupportBotReply(ClassifiedsPostText, Some(ClassifiedsPostFollowUps), FALSE)
      ELSE SupportBotReply(ClassifiedsMenuText, None, FALSE)

build_classifieds_help(message) ==
  LET lower == ToLower(message)
  IN  IF Contains(lower, Kw_post)
         /\ AnyIn(lower, <<Kw_item, Kw_equipment, Kw_tool, Kw_tools>>)
        THEN SupportBotReply(ClassifiedsPostText, Some(ClassifiedsPostFollowUps), FALSE)
      ELSE IF Contains(lower, Kw_mark) /\ Contains(lower, Kw_sold)
        THEN SupportBotReply(ClassifiedsSoldText, None, FALSE)
      ELSE SupportBotReply(ClassifiedsMenuText, None, FALSE)

---------------------------------------------------------------------------
(* Inputs *)

Vocabulary ==
  { <<"P","o","s","t">>,
    <<"j","o","b">>,
    <<"e","d","i","t">>,
    <<"r","e","m","o","v","e">>,
    <<"t","o","o","l","s">>,
    <<"m","a","r","k">>,
    <<"s","o","l","d">>,
    <<"C","R","A","S","H","i","n","g">>,
    <<"n","o","t">>,
    <<"l","o","a","d","i","n","g">> }

RECURSIVE Join(_)
\* " ".join(words)
Join(words) ==
  IF words = <<>> THEN <<>>
  ELSE IF Len(words) = 1 THEN words[1]
  ELSE words[1] \o <<" ">> \o Join(Tail(words))

Messages ==
  { Join(ws) : ws \in UNION { [1..n -> Vocabulary] : n \in 0..MaxWords } }

SupMessages ==
  { Join(ws) : ws \in UNION { [1..n -> Vocabulary] : n \in 0..MaxSupWords } }

Contexts == {"jobs", "classifieds"}

\* class SupportBotRequest: userId is Optional[str] and defaults to None
SupportBotRequests ==
  [ userId : {None, Some("u1")}, message : SupMessages, context : Contexts ]

\* where an exception is injected into handle_support_message: nowhere, in
\* the classifier call, or while the reply is being built
Faults == {"none", "classify", "reply"}

---------------------------------------------------------------------------
(* The help-text builders applied to every message *)

HelpInit ==
  /\ helpMsg \in Messages
  /\ helpFn = "none"
  /\ helpOut = None

SupIdle ==
  /\ supPc = "idle"
  /\ supReq = None
  /\ supReply = None
  /\ supCalls = <<>>
  /\ supRaised = FALSE
  /\ bgTasks = <<>>
  /\ emails = <<>>

CallBuildJobsHelp ==
  /\ helpFn = "none"
  /\ helpFn' = "jobs"
  /\ helpOut' = Some(build_jobs_help(helpMsg))
  /\ UNCHANGED <<helpMsg, supVars, welVars>>

CallBuildClassifiedsHelp ==
  /\ helpFn = "none"
  /\ helpFn' = "classifieds"
  /\ helpOut' = Some(build_classifieds_help(helpMsg))
  /\ UNCHANGED <<helpMsg, supVars, welVars>>

HelpUnused ==
  /\ helpMsg = <<>>
  /\ helpFn = "none"
  /\ helpOut = None

---------------------------------------------------------------------------
(* POST /support-bot *)

SUPPORT_FROM_EMAIL == "no-reply@superiorllc.org"
SUPPORT_TO_EMAIL == "info@superiorllc.org"

\* the Mail that send_issue_email_sync composes and hands to SendGrid
send_issue_email_sync(req) ==
  [ from_email |-> SUPPORT_FROM_EMAIL,
    to_emails |-> SUPPORT_TO_EMAIL,
    subject |-> "[Road Workers Connect] User-reported issue",
    context |-> req.context,
    userId |-> IF req.userId = None \/ req.userId = Some("")
                 THEN "unknown / guest" ELSE Get(req.userId),
    message |-> req.message ]

\* background_tasks.add_task(func, arg)
add_task(background_tasks, func, arg) ==
  Append(background_tasks, [func |-> func, arg |-> arg])

\* handle_support_message flagging the issue without scheduling the e-mail
handle_support_message_NoTask(req, background_tasks, fault) ==
  IF fault = "classify"
    THEN [ raised |-> TRUE, reply |-> None,
           background_tasks |-> background_tasks,
           calls |-> <<"looks_like_environment_issue">> ]
  ELSE IF looks_like_environment_issue(req.message)
    THEN [ raised |-> fault = "reply",
           reply |-> IF fault = "reply" THEN None
                     ELSE Some(SupportBotReply(IssueText, None, TRUE)),
           background_tasks |-> background_tasks,
           calls |-> <<"looks_like_environment_issue">> ]
  ELSE [ raised |-> fault = "reply",
         reply |-> IF fault = "reply" THEN None
                   ELSE Some(IF req.context = "jobs"
                               THEN build_jobs_help(req.message)
                               ELSE build_classifieds_help(req.message)),
         background_tasks |-> background_tasks,
         calls |-> <<"looks_like_environment_issue">> ]

\* The outcome of handle_support_message: the reply it returns or the fact
\* that it raised, the BackgroundTasks as it leaves them, the calls it made.
handle_support_message(req, background_tasks, fault) ==
  IF fault = "classify"
    THEN [ raised |-> TRUE, reply |-> None,
           background_tasks |-> background_tasks,
           calls |-> <<"looks_like_environment_issue">> ]
  ELSE IF looks_like_environment_issue(req.message)
    THEN [ raised |-> fault = "reply",
           reply |-> IF fault = "reply" THEN None
                     ELSE Some(SupportBotReply(IssueText, None, TRUE)),
           background_tasks |->
             add_task(background_tasks, "send_issue_email_sync", req),
           calls |-> <<"looks_like_environment_issue", "add_task">> ]
  ELSE IF req.context = "jobs"
    THEN [ raised |-> fault = "reply",
           reply |-> IF fault = "reply" THEN None
                     ELSE Some(build_jobs_help(req.message)),
           background_tasks |-> background_tasks,
           calls |-> <<"looks_like_environment_issue", "build_jobs_help">> ]
  ELSE [ raised |-> fault = "reply",
         reply |-> IF fault = "reply" THEN None
                   ELSE Some(build_classifieds_help(req.message)),
         background_tasks |-> background_tasks,
         calls |-> <<"looks_like_environment_issue", "build_classifieds_help">> ]

\* try: return await handle_support_message(...)  except Exception: ...
support_bot_endpoint(req, background_tasks, fault) ==
  LET h == handle_support_message(req, background_tasks, fault)
  IN  [ raised |-> h.raised,
        reply |-> IF h.raised
                    THEN SupportBotReply(FallbackText, None, TRUE)
                    ELSE Get(h.reply),
        background_tasks |-> h.background_tasks,
        calls |-> h.calls ]

\* the endpoint sending the e-mail itself, before it returns the reply
SupportBotEndpoint_SendsInline(req, fault) ==
  /\ supPc = "idle"
  /\ \E r \in {support_bot_endpoint(req, <<>>, fault)} :
         /\ supReply' = Some(r.reply)
         /\ bgTasks' = r.background_tasks
         /\ supCalls' = r.calls
         /\ supRaised' = r.raised
         /\ emails' = [ i \in 1..Len(r.background_tasks) |->
                          [ mail |-> send_issue_email_sync(r.background_tasks[i].arg),
                            outcome |-> "sent" ] ]
  /\ supReq' = Some(req)
  /\ supPc' = "responded"
  /\ UNCHANGED <<helpVars, welVars>>

\* A request is served: the endpoint runs to its return without suspending
\* and the reply is handed over as the HTTP response.
SupportBotEndpoint(req, fault) ==
  /\ supPc = "idle"
  /\ \E r \in {support_bot_endpoint(req, <<>>, fault)} :
         /\ supReply' = Some(r.reply)
         /\ bgTasks' = r.background_tasks
         /\ supCalls' = r.calls
         /\ supRaised' = r.raised
  /\ supReq' = Some(req)
  /\ supPc' = "responded"
  /\ UNCHANGED <<emails, helpVars, welVars>>

\* The response has been produced; the tasks added to BackgroundTasks run
\* one after the other, and a task that raises ends the run.
RunBackgroundTask(outcome) ==
  /\ supPc = "responded"
  /\ Len(emails) < Len(bgTasks)
  /\ IF emails = <<>> THEN TRUE ELSE emails[Len(emails)].outcome = "sent"
  /\ LET task == bgTasks[Len(emails) + 1]
     IN  emails' = Append(emails,
           [ mail |-> send_issue_email_sync(task.arg), outcome |-> outcome ])
  /\ UNCHANGED <<supPc, supReq, supReply, supCalls, supRaised, bgTasks, helpVars, welVars>>

\* The request's lifecycle ends (tasks that have not run are dropped with it).
SupportRequestEnds ==
  /\ supPc = "responded"
  /\ supPc' = "idle"
  /\ supReq' = None
  /\ supReply' = None
  /\ supCalls' = <<>>
  /\ supRaised' = FALSE
  /\ bgTasks' = <<>>
  /\ emails' = <<>>
  /\ UNCHANGED <<helpVars, welVars>>

EmailOutcomes == {"sent", "failed"}

\* a request arrives only while none is being served
SupportRequest(faults) ==
  /\ supPc = "idle"
  /\ \E req \in SupportBotRequests, fault \in faults : SupportBotEndpoint(req, fault)

EmailTaskRuns == \E outcome \in EmailOutcomes : RunBackgroundTask(outcome)

---------------------------------------------------------------------------
(* POST /welcome-message *)

WelcomeIds == 1..MaxWelcome

UserIds == {"u1", "u2"}
ModeratorIds == {"", "mod1", "mod2"}

\* JSON bodies sent to the endpoint: userId absent, empty or a user id
WelcomeBodies == [ userId : {None} \cup { Some(u) : u \in UserIds \cup {""} } ]

\* class WelcomeRequest(BaseModel): userId is a required str, so a body
\* without it does not validate and the endpoint function is not called
WelcomeRequestValid(body) == body.userId # None

ValidationErrorResponse ==
  [ status_code |-> 422, body |-> [ detail |-> "userId: field required" ] ]
UserIdRequiredResponse ==
  [ status_code |-> 200,
    body |-> [ status |-> "error", message |-> "userId is required" ] ]
OkResponse ==
  [ status_code |-> 200, body |-> [ status |-> "ok" ] ]
FailedResponse ==
  [ status_code |-> 200,
    body |-> [ status |-> "error", message |-> "failed to send welcome message" ] ]

\* "limit": 1 in the lookup's query
LookupLimit == 1

StatusCodes == {200, 302, 500}

\* What an awaited client.get / client.post can come back with: an HTTP
\* response, or an exception of the transport (timeout, connection error).
TransportError == [ kind |-> "transport_error" ]
Response(status_code, data) ==
  [ kind |-> "response", status_code |-> status_code, data |-> data ]

\* rows of public.users matching the query, at most LookupLimit of them
UserRows ==
  UNION { [1..n -> [ id : ModeratorIds ]] : n \in 0..LookupLimit }

LookupOutcomes ==
  {TransportError}
    \cup { Response(sc, <<>>) : sc \in { c \in StatusCodes : c \notin 200..299 } }
    \cup { Response(sc, rows) : sc \in { c \in StatusCodes : c \in 200..299 },
                                rows \in UserRows }

\* "Prefer": "return=minimal": the insert's response carries no rows
InsertOutcomes == {TransportError} \cup { Response(sc, <<>>) : sc \in StatusCodes }

\* raise_for_status that lets redirects through
raise_for_status_ErrorsOnly(resp) == resp.status_code >= 400

\* resp.raise_for_status(): TRUE when it raises
raise_for_status(resp) == resp.status_code \notin 200..299

\* Python truth value of an Optional[str]
Truthy(o) == o # None /\ o # Some("")

\* get_moderator_bot_id from the point where the awaited GET comes back:
\* whether it raises, and the Optional id it returns otherwise
get_moderator_bot_id(outcome) ==
  IF outcome.kind = "transport_error" THEN [ raised |-> TRUE, value |-> None ]
  ELSE IF raise_for_status(outcome) THEN [ raised |-> TRUE, value |-> None ]
  ELSE IF outcome.data = <<>> THEN [ raised |-> FALSE, value |-> None ]
  ELSE [ raised |-> FALSE, value |-> Some(outcome.data[1].id) ]

build_welcome_message_text ==
  "Welcome to Road Workers Connect. This space is for road crews, contractors, and industry pros to trade jobs, gear, and good information. Keep it professional, avoid spam, and stay focused on real work. If you need help posting jobs or items for sale, tap the Support button and the Support Bot will walk you through it. Stay safe out there."

\* the payload send_welcome_dm posts to /messages
WelcomePayload(moderator_id, new_user_id) ==
  [ sender_id |-> moderator_id,
    recipient_id |-> new_user_id,
    content |-> build_welcome_message_text,
    is_bot_generated |-> TRUE ]

EvAcquire(c) == [ ev |-> "acquire", client |-> c ]
EvRelease(c) == [ ev |-> "release", client |-> c ]
EvGet(c) ==
  [ ev |-> "get", client |-> c, resource |-> "users",
    params |-> [ is_bot |-> "eq.true", bot_role |-> "eq.moderator",
                 select |-> "id", limit |-> LookupLimit ] ]
EvGetResult(outcome) == [ ev |-> "get_result", outcome |-> outcome ]
EvPost(c, payload) ==
  [ ev |-> "post", client |-> c, resource |-> "messages", payload |-> payload ]
EvPostResult(outcome) == [ ev |-> "post_result", outcome |-> outcome ]
EvRespond(response) == [ ev |-> "respond", response |-> response ]

\* the client is closed on the success path only
LeaveClientBlock_LeakOnError(c, raised) ==
  IF raised THEN << EvRespond(FailedResponse) >>
  ELSE << EvRelease(c), EvRespond(OkResponse) >>

\* Leaving `async with httpx.AsyncClient() as client` and returning from the
\* endpoint: the client is closed whether or not the block raised, then the
\* try statement's outcome decides the response.
LeaveClientBlock(c, raised) ==
  << EvRelease(c), EvRespond(IF raised THEN FailedResponse ELSE OkResponse) >>

\* the client states after the events of a log suffix
ClientsAfter(cs, events) ==
  [ c \in DOMAIN cs |->
      IF \E i \in 1..Len(events) :
           events[i].ev = "release" /\ events[i].client = c
        THEN "closed" ELSE cs[c] ]

\* send_welcome_dm without its early return: the insert is issued anyway
AfterLookup_NoEarlyReturn(new_user_id, c, outcome) ==
  LET m == get_moderator_bot_id(outcome)
  IN  IF m.raised THEN <<EvGetResult(outcome)>> \o LeaveClientBlock(c, TRUE)
      ELSE << EvGetResult(outcome),
              EvPost(c, WelcomePayload(IF m.value = None THEN "" ELSE Get(m.value),
                                       new_user_id)) >>

\* send_welcome_dm raising when no moderator is found
AfterLookup_RaiseIfNone(new_user_id, c, outcome) ==
  LET m == get_moderator_bot_id(outcome)
  IN  IF m.raised \/ ~Truthy(m.value)
        THEN <<EvGetResult(outcome)>> \o LeaveClientBlock(c, TRUE)
      ELSE << EvGetResult(outcome),
              EvPost(c, WelcomePayload(Get(m.value), new_user_id)) >>

\* a failed lookup tried once more
AfterLookup_Retry(new_user_id, c, outcome) ==
  LET m == get_moderator_bot_id(outcome)
  IN  IF m.raised THEN << EvGetResult(outcome), EvGet(c) >>
      ELSE IF ~Truthy(m.value)
        THEN <<EvGetResult(outcome)>> \o LeaveClientBlock(c, FALSE)
      ELSE << EvGetResult(outcome),
              EvPost(c, WelcomePayload(Get(m.value), new_user_id)) >>

\* The events of send_welcome_dm and the endpoint from the point where the
\* lookup comes back, up to the next await or to the response.
AfterLookup(new_user_id, c, outcome) ==
  LET m == get_moderator_bot_id(outcome)
  IN  IF m.raised THEN <<EvGetResult(outcome)>> \o LeaveClientBlock(c, TRUE)
      ELSE IF ~Truthy(m.value)
        THEN <<EvGetResult(outcome)>> \o LeaveClientBlock(c, FALSE)
      ELSE << EvGetResult(outcome),
              EvPost(c, WelcomePayload(Get(m.value), new_user_id)) >>

\* The same from the point where the insert comes back.
AfterInsert(c, outcome) ==
  IF outcome.kind = "transport_error"
    THEN <<EvPostResult(outcome)>> \o LeaveClientBlock(c, TRUE)
  ELSE <<EvPostResult(outcome)>> \o LeaveClientBlock(c, raise_for_status(outcome))

Last(seq) == seq[Len(seq)]

\* A request arrives. The body is validated, the endpoint checks userId,
\* opens a client and send_welcome_dm runs up to the awaited lookup.
WelcomeArrives(w, body) ==
  /\ welPc[w] = "idle"
  /\ welBody' = [welBody EXCEPT ![w] = Some(body)]
  /\ IF ~WelcomeRequestValid(body)
       THEN /\ welLog' = [welLog EXCEPT ![w] = <<EvRespond(ValidationErrorResponse)>>]
            /\ welResp' = [welResp EXCEPT ![w] = Some(ValidationErrorResponse)]
            /\ welPc' = [welPc EXCEPT ![w] = "done"]
            /\ UNCHANGED <<welClient, clients>>
     ELSE IF ~Truthy(body.userId)
       THEN /\ welLog' = [welLog EXCEPT ![w] = <<EvRespond(UserIdRequiredResponse)>>]
            /\ welResp' = [welResp EXCEPT ![w] = Some(UserIdRequiredResponse)]
            /\ welPc' = [welPc EXCEPT ![w] = "done"]
            /\ UNCHANGED <<welClient, clients>>
     ELSE LET c == Len(clients) + 1
          IN  /\ clients' = Append(clients, "open")
              /\ welClient' = [welClient EXCEPT ![w] = Some(c)]
              /\ welLog' = [welLog EXCEPT ![w] = <<EvAcquire(c), EvGet(c)>>]
              /\ welPc' = [welPc EXCEPT ![w] = "lookup"]
              /\ UNCHANGED welResp
  /\ UNCHANGED <<helpVars, supVars>>

\* The events a step appends decide where the request stands afterwards.
WelcomeAdvance(w, events) ==
  /\ welLog' = [welLog EXCEPT ![w] = @ \o events]
  /\ clients' = ClientsAfter(clients, events)
  /\ IF Last(events).ev = "respond"
       THEN /\ welResp' = [welResp EXCEPT ![w] = Some(Last(events).response)]
            /\ welPc' = [welPc EXCEPT ![w] = "done"]
       ELSE /\ welPc' = [welPc EXCEPT ![w] = "insert"]
            /\ UNCHANGED welResp
  /\ UNCHANGED <<welBody, welClient, helpVars, supVars>>

\* The awaited lookup comes back.
LookupReturns(w, outcome) ==
  /\ welPc[w] = "lookup"
  /\ WelcomeAdvance(w,
       AfterLookup(Get(Get(welBody[w]).userId), Get(welClient[w]), outcome))

\* The awaited insert comes back.
InsertReturns(w, outcome) ==
  /\ welPc[w] = "insert"
  /\ WelcomeAdvance(w, AfterInsert(Get(welClient[w]), outcome))

WelIdle ==
  /\ welPc = [w \in WelcomeIds |-> "idle"]
  /\ welBody = [w \in WelcomeIds |-> None]
  /\ welLog = [w \in WelcomeIds |-> <<>>]
  /\ welResp = [w \in WelcomeIds |-> None]
  /\ welClient = [w \in WelcomeIds |-> None]
  /\ clients = <<>>

---------------------------------------------------------------------------
(* Specifications *)

\* the help-text builders on their own
InitHelp == HelpInit /\ SupIdle /\ WelIdle
NextHelp == CallBuildJobsHelp \/ CallBuildClassifiedsHelp
SpecHelp == InitHelp /\ [][NextHelp]_vars

\* /support-bot as written: nothing in handle_support_message raises
InitSupport == HelpUnused /\ SupIdle /\ WelIdle
NextSupport ==
  \/ SupportRequest({"none"})
  \/ EmailTaskRuns
  \/ SupportRequestEnds
SpecSupport == InitSupport /\ [][NextSupport]_vars

\* /support-bot with an exception raised inside the try block
NextSupportExc ==
  \/ SupportRequest(Faults)
  \/ EmailTaskRuns
  \/ SupportRequestEnds
SpecSupportExc == InitSupport /\ [][NextSupportExc]_vars

\* /welcome-message, requests served concurrently on one event loop
InitWelcome == HelpUnused /\ SupIdle /\ WelIdle
NextWelcome ==
  \/ \E w \in WelcomeIds, body \in WelcomeBodies : WelcomeArrives(w, body)
  \/ \E w \in WelcomeIds, outcome \in LookupOutcomes : LookupReturns(w, outcome)
  \/ \E w \in WelcomeIds, outcome \in InsertOutcomes : InsertReturns(w, outcome)
SpecWelcome == InitWelcome /\ [][NextWelcome]_vars

---------------------------------------------------------------------------
(* Vocabulary of the properties *)

\* the capital of each small letter
CapitalOf ==
  [ c \in { Lower[i] : i \in 1..Len(Lower) } |->
      Upper[CHOOSE i \in 1..Len(Lower) : Lower[i] = c] ]

\* character a of a message matches character b of a lower-case phrase:
\* the same character, or the capital of that letter
SameLetter(a, b) ==
  \/ a = b
  \/ b \in DOMAIN CapitalOf /\ CapitalOf[b] = a

\* word occurs in msg, case ignored
Mentions(msg, word) ==
  \E i \in 0..(Len(msg) - Len(word)) :
    \A j \in 1..Len(word) : SameLetter(msg[i + j], word[j])

\* the trigger phrases of the request classifier
TriggerPhrases ==
  { <<"n","o","t"," ","l","o","a","d","i","n","g">>,
    <<"s","p","i","n","n","e","r">>,
    <<"c","r","a","s","h">>,
    <<"e","r","r","o","r">>,
    <<"4","0","4">>, <<"5","0","0">>, <<"5","0","2">>,
    <<"c","a","n","n","o","t"," ","c","o","n","n","e","c","t">>,
    <<"c","o","n","n","e","c","t","i","o","n"," ","p","r","o","b","l","e","m">>,
    <<"n","e","t","w","o","r","k"," ","i","s","s","u","e">>,
    <<"l","i","n","k"," ","n","o","t"," ","w","o","r","k","i","n","g">>,
    <<"b","r","o","k","e","n"," ","l","i","n","k">>,
    <<"a","p","p"," ","f","r","o","z","e">>,
    <<"w","h","i","t","e"," ","s","c","r","e","e","n">> }

HasTrigger(msg) == \E t \in TriggerPhrases : Mentions(msg, t)

\* positions of the events of one kind in a welcome request's log
Idx(w, kind) == { i \in DOMAIN welLog[w] : welLog[w][i].ev = kind }

Is2xx(o) == o.kind = "response" /\ o.status_code \in 200..299
Non2xx(o) == o.kind = "response" /\ o.status_code \notin 200..299

\* the request carried a non-empty userId
PassedValidation(w) ==
  /\ welBody[w] # None
  /\ Get(welBody[w]).userId # None
  /\ Get(Get(welBody[w]).userId) # ""

\* the request's lookup succeeded and returned zero rows
ZeroRows(w) ==
  \E i \in Idx(w, "get_result") :
    Is2xx(welLog[w][i].outcome) /\ welLog[w][i].outcome.data = <<>>

\* the request's lookup succeeded with a row whose id is empty
EmptyId(w) ==
  \E i \in Idx(w, "get_result") :
    /\ Is2xx(welLog[w][i].outcome)
    /\ welLog[w][i].outcome.data # <<>>
    /\ welLog[w][i].outcome.data[1].id = ""

\* the request's insert was accepted by the message store
Inserted(w) ==
  \E i \in Idx(w, "post_result") : Is2xx(welLog[w][i].outcome)

\* an external call of the request came back with a non-2xx status
CallFailed(w, i) ==
  /\ welLog[w][i].ev \in {"get_result", "post_result"}
  /\ Non2xx(welLog[w][i].outcome)

StatusOf(w) == Get(welResp[w]).body.status

---------------------------------------------------------------------------
(* C1: a welcome request whose userId is missing or empty is answered      *)
(* {status: "error", message: "userId is required"} and attempts no        *)
(* external call: no client, no lookup, no insert.                         *)

C1_Claim ==
  \A w \in WelcomeIds :
    (welPc[w] = "done" /\ ~PassedValidation(w)) =>
      /\ Get(welResp[w]).body =
           [ status |-> "error", message |-> "userId is required" ]
      /\ welClient[w] = None
      /\ Idx(w, "acquire") \cup Idx(w, "get") \cup Idx(w, "post") = {}

---------------------------------------------------------------------------
(* C2: when the lookup succeeds with zero rows no insert is attempted; an  *)
(* insert is attempted only after a lookup of the same request returned a  *)
(* moderator id, and the inserted record has that id as sender_id and the  *)
(* request's userId as recipient_id.                                       *)

C2_Theorem ==
  \A w \in WelcomeIds :
    /\ ZeroRows(w) => Idx(w, "post") = {}
    /\ \A p \in Idx(w, "post") :
         \E g \in Idx(w, "get_result") :
           LET o == welLog[w][g].outcome
               payload == welLog[w][p].payload
           IN  /\ g < p
               /\ Is2xx(o)
               /\ o.data # <<>>
               /\ o.data[1].id # ""
               /\ payload.sender_id = o.data[1].id
               /\ payload.recipient_id = Get(Get(welBody[w]).userId)

C2_Witness ==
  \E w1, w2 \in WelcomeIds :
    /\ welPc[w1] = "done" /\ ZeroRows(w1)
    /\ welPc[w2] = "done" /\ Inserted(w2)
    /\ Get(welBody[w1]).userId # Get(welBody[w2]).userId

---------------------------------------------------------------------------
(* C3: with a non-empty userId, a non-2xx answer of the lookup or of the   *)
(* insert stops the operation: the response is {status: "error", message}, *)
(* never {status: "ok"}, and no further call follows (a failed lookup is   *)
(* never followed by an insert).                                           *)

C3_Theorem ==
  \A w \in WelcomeIds :
    PassedValidation(w) =>
      \A i \in DOMAIN welLog[w] :
        CallFailed(w, i) =>
          /\ welPc[w] = "done"
          /\ StatusOf(w) = "error"
          /\ DOMAIN Get(welResp[w]).body = {"status", "message"}
          /\ \A j \in Idx(w, "get") \cup Idx(w, "post") : j < i

C3_Witness ==
  \E w1, w2 \in WelcomeIds :
    /\ welPc[w1] = "done"
    /\ \E i \in Idx(w1, "get_result") :
         /\ Non2xx(welLog[w1][i].outcome)
         /\ welLog[w1][i].outcome.status_code = 302
    /\ welPc[w2] = "done"
    /\ \E i \in Idx(w2, "post_result") : Non2xx(welLog[w2][i].outcome)

---------------------------------------------------------------------------
(* C4: with a non-empty userId and a lookup that succeeds with zero rows,  *)
(* the insert is skipped and the endpoint still returns a failure body;    *)
(* it returns {status: "ok"} only when a message was inserted.             *)

C4_Claim ==
  \A w \in WelcomeIds :
    (PassedValidation(w) /\ welPc[w] = "done") =>
      /\ ZeroRows(w) => (Idx(w, "post") = {} /\ StatusOf(w) = "error")
      /\ StatusOf(w) = "ok" => Inserted(w)

(* C4 as amended: with a lookup that succeeds with zero rows the insert is *)
(* skipped and the endpoint returns {status: "ok"}; the endpoint returns   *)
(* {status: "ok"} exactly when a message was inserted or the lookup        *)
(* succeeded without a usable moderator id (zero rows or an empty id).     *)

C4_Theorem ==
  \A w \in WelcomeIds :
    (PassedValidation(w) /\ welPc[w] = "done") =>
      /\ ZeroRows(w) => (Idx(w, "post") = {} /\ welResp[w] = Some(OkResponse))
      /\ welResp[w] = Some(OkResponse)
           <=> (Inserted(w) \/ ZeroRows(w) \/ EmptyId(w))

C4_Witness ==
  \E w \in WelcomeIds :
    /\ PassedValidation(w)
    /\ welPc[w] = "done"
    /\ ZeroRows(w)
    /\ welResp[w] = Some(OkResponse)

---------------------------------------------------------------------------
(* C5: every reply of the support-bot endpoint, the catch-all exception    *)
(* path included, satisfies: issueReported = true implies that the reply   *)
(* text is the one "issue acknowledged" message and that an e-mail         *)
(* notification task was scheduled for the request.                        *)

\* the e-mail task of the request being served is on its BackgroundTasks
NotificationScheduled ==
  \E i \in DOMAIN bgTasks :
    bgTasks[i] = [ func |-> "send_issue_email_sync", arg |-> Get(supReq) ]

---------------------------------------------------------------------------
(* C6: in either context, a message that contains a trigger phrase after   *)
(* lower-casing is classified as an environment issue and the endpoint     *)
(* returns issueReported = true with the fixed apology text, whether or    *)
(* not a help keyword rule matches too (the help-text builders are not     *)
(* invoked); a message with no trigger phrase is not classified so and     *)
(* gets issueReported = false.                                             *)

HelpBuilders == {"build_jobs_help", "build_classifieds_help"}

C6_Theorem ==
  supPc = "responded" =>
    LET msg == Get(supReq).message
        reply == Get(supReply)
    IN  IF HasTrigger(msg)
          THEN /\ looks_like_environment_issue(msg)
               /\ reply.issueReported
               /\ reply.reply = IssueText
               /\ \A i \in DOMAIN supCalls : supCalls[i] \notin HelpBuilders
          ELSE /\ ~looks_like_environment_issue(msg)
               /\ ~reply.issueReported

C6_Witness ==
  /\ supPc = "responded"
  /\ Get(supReq).context = "jobs"
  /\ Mentions(Get(supReq).message, <<"c","r","a","s","h">>)
  /\ ~Contains(Get(supReq).message, <<"c","r","a","s","h">>)
  /\ Mentions(Get(supReq).message, <<"p","o","s","t">>)
  /\ Mentions(Get(supReq).message, <<"j","o","b">>)
  /\ Get(supReply).issueReported
  /\ Get(supReply).reply = IssueText

---------------------------------------------------------------------------
(* C7: for a request the classifier flags, the handler only schedules the  *)
(* e-mail send; the send starts no earlier than the reply has been         *)
(* produced, is attempted at most once per request, and the reply is the   *)
(* same whether the send succeeds, fails or never runs.                    *)

C7_Step ==
  /\ (supPc' = "responded" /\ HasTrigger(Get(supReq').message)) =>
       bgTasks' = << [ func |-> "send_issue_email_sync", arg |-> Get(supReq') ] >>
  /\ (supPc = "responded" /\ supPc' = "responded") =>
       (supReply' = supReply /\ bgTasks' = bgTasks)
  /\ Len(emails') > Len(emails) =>
       /\ supPc = "responded"
       /\ supReply # None
       /\ emails = <<>>
       /\ Len(emails') = 1
       /\ NotificationScheduled
       /\ emails'[1].mail.message = Get(supReq).message

C7_Theorem == [][C7_Step]_vars

C7_Witness ==
  /\ supPc = "responded"
  /\ Len(emails) = 1
  /\ emails[1].outcome = "failed"
  /\ Get(supReply).reply = IssueText

---------------------------------------------------------------------------
(* C9: the help-text builders apply their keyword rules in order and the   *)
(* first match wins. Jobs: "post" with "job" gets the posting reply with   *)
(* exactly two follow-up questions, whatever else the message contains;    *)
(* edit/update wins over delete/remove; no match gets the jobs menu.       *)
(* Classifieds: "post" with item/equipment/tool/tools wins over "mark"     *)
(* with "sold"; no match gets the classifieds menu. Only the posting       *)
(* replies carry follow-up questions.                                      *)

W_post == <<"p","o","s","t">>
W_job == <<"j","o","b">>
W_edit == <<"e","d","i","t">>
W_update == <<"u","p","d","a","t","e">>
W_delete == <<"d","e","l","e","t","e">>
W_remove == <<"r","e","m","o","v","e">>
W_mark == <<"m","a","r","k">>
W_sold == <<"s","o","l","d">>
W_goods ==
  { <<"i","t","e","m">>, <<"e","q","u","i","p","m","e","n","t">>,
    <<"t","o","o","l">>, <<"t","o","o","l","s">> }

JobsPosting(m) == Mentions(m, W_post) /\ Mentions(m, W_job)
JobsEditing(m) == Mentions(m, W_edit) \/ Mentions(m, W_update)
JobsRemoving(m) == Mentions(m, W_delete) \/ Mentions(m, W_remove)
ClassifiedsPosting(m) == Mentions(m, W_post) /\ \E g \in W_goods : Mentions(m, g)
ClassifiedsSold(m) == Mentions(m, W_mark) /\ Mentions(m, W_sold)

TwoFollowUps(reply) ==
  /\ reply.followUpQuestions # None
  /\ Len(Get(reply.followUpQuestions)) = 2

\* the first rule of each context that a message matches
JobsRule(m) ==
  IF JobsPosting(m) THEN "post"
  ELSE IF JobsEditing(m) THEN "edit"
  ELSE IF JobsRemoving(m) THEN "remove"
  ELSE "menu"

ClassifiedsRule(m) ==
  IF ClassifiedsPosting(m) THEN "post"
  ELSE IF ClassifiedsSold(m) THEN "sold"
  ELSE "menu"

JobsReplyOf ==
  [ post |-> JobsPostText, edit |-> JobsEditText,
    remove |-> JobsDeleteText, menu |-> JobsMenuText ]

ClassifiedsReplyOf ==
  [ post |-> ClassifiedsPostText, sold |-> ClassifiedsSoldText,
    menu |-> ClassifiedsMenuText ]

C9_Theorem ==
  helpOut # None =>
    \E out \in helpOut :
      \E rule \in { IF helpFn = "jobs" THEN JobsRule(helpMsg)
                                       ELSE ClassifiedsRule(helpMsg) } :
        /\ helpFn \in {"jobs", "classifieds"}
        /\ ~out.issueReported
        /\ out.reply = IF helpFn = "jobs" THEN JobsReplyOf[rule]
                                          ELSE ClassifiedsReplyOf[rule]
        /\ IF rule = "post" THEN TwoFollowUps(out)
                            ELSE out.followUpQuestions = None

C9_Witness ==
  /\ helpFn = "classifieds"
  /\ ClassifiedsPosting(helpMsg)
  /\ ClassifiedsSold(helpMsg)
  /\ Get(helpOut).reply = ClassifiedsPostText
  /\ TwoFollowUps(Get(helpOut))

---------------------------------------------------------------------------
(* C8: every welcome request that passes userId validation acquires its    *)
(* own fresh client and releases it before the endpoint responds, in every *)
(* outcome; no client stays acquired after its request has completed and   *)
(* no client is shared between two requests.                               *)

C8_Theorem ==
  \A w \in WelcomeIds :
    (PassedValidation(w) /\ welPc[w] # "idle") =>
      /\ welClient[w] # None
      /\ welLog[w][1] = EvAcquire(Get(welClient[w]))
      /\ Idx(w, "acquire") = {1}
      /\ \A i \in Idx(w, "get") \cup Idx(w, "post") :
           welLog[w][i].client = Get(welClient[w])
      /\ \A v \in WelcomeIds \ {w} :
           /\ welClient[v] # welClient[w]
           /\ \A i \in DOMAIN welLog[v] :
                welLog[v][i].ev \in {"acquire", "get", "post", "release"}
                  => welLog[v][i].client # Get(welClient[w])
      /\ welPc[w] # "done" => clients[Get(welClient[w])] = "open"
      /\ welPc[w] = "done" =>
           /\ clients[Get(welClient[w])] = "closed"
           /\ \E r \in Idx(w, "release") :
                /\ welLog[w][r].client = Get(welClient[w])
                /\ \A a \in Idx(w, "respond") : r < a

C8_Witness ==
  \E w1, w2 \in WelcomeIds :
    /\ welPc[w1] = "done" /\ PassedValidation(w1) /\ welResp[w1] = Some(FailedResponse)
    /\ \E i \in Idx(w1, "post_result") : ~Is2xx(welLog[w1][i].outcome)
    /\ welPc[w2] = "insert"
    /\ clients[Get(welClient[w1])] = "closed"
    /\ clients[Get(welClient[w2])] = "open"

---------------------------------------------------------------------------
(* C10: a welcome request issues at most one lookup and at most one        *)
(* insert, the lookup completes before the insert is issued, and a failed  *)
(* call is followed neither by a repeated attempt nor by any other call.   *)

C10_Theorem ==
  \A w \in WelcomeIds :
    /\ Cardinality(Idx(w, "get")) <= 1
    /\ Cardinality(Idx(w, "post")) <= 1
    /\ \A p \in Idx(w, "post") :
         \E g \in Idx(w, "get_result") : g < p /\ Is2xx(welLog[w][g].outcome)
    /\ \A i \in Idx(w, "get_result") \cup Idx(w, "post_result") :
         ~Is2xx(welLog[w][i].outcome) =>
           /\ \A j \in Idx(w, "get") \cup Idx(w, "post") : j < i
           /\ welPc[w] = "done"

C10_Witness ==
  \E w1, w2 \in WelcomeIds :
    /\ welPc[w1] = "done" /\ Inserted(w1)
    /\ welPc[w2] = "done"
    /\ \E i \in Idx(w2, "post_result") : ~Is2xx(welLog[w2][i].outcome)

=============================================================================
